---- MODULE Spec2Model ----
(***************************************************************************)
(* A model of the EQEmu password hasher (src/main.go).                     *)
(*                                                                         *)
(* Go strings and []byte values are sequences of byte values 0..255, so    *)
(* that len, slicing, LastIndex, HasPrefix and TrimSpace act on them as    *)
(* they do in Go.  Go indexes from 0 and TLA+ from 1: Slice and the index  *)
(* helpers below carry the shift.                                          *)
(*                                                                         *)
(* The digests and key derivation functions of the Go libraries (md5.Sum,  *)
(* sha1.Sum, sha512.Sum512, scrypt.Key, argon2.IDKey) are not code of this *)
(* program.  Each is a deterministic function of its arguments with the    *)
(* library's output length; what it computes inside is replaced by a small *)
(* mixing function (Absorb / Squeeze).  Everything the program itself does *)
(* with their results (hex formatting, the escrypt codec, the MCF layout,  *)
(* the slicing in the verifier) is modelled as written.                    *)
(***************************************************************************)
EXTENDS Integers, Sequences, FiniteSets, TLC

VARIABLES
    \* Generate tab widgets (buildGenerateTab)
    usernameEntry, passwordEntry, modeSelect, usernameNote, outputEntry,
    \* shared by both tabs (main)
    statusLabel, clipboard,
    \* Verify tab widgets (buildVerifyTab)
    hashEntry, verifyPasswordEntry, resultLabel,
    \* the process: TRUE once a handler has panicked; engineCalls lists the
    \* engine functions the most recent handler called
    panicked, engineCalls,
    \* direct calls of the engine functions; rnd is the random source the call read
    pc, username, password, mode, rnd, hash, err, storedHash, verifyPassword, verified,
    \* direct calls of the codec
    srcA, srcB, encA, encB

guiVars == <<usernameEntry, passwordEntry, modeSelect, usernameNote, outputEntry,
             statusLabel, clipboard, hashEntry, verifyPasswordEntry, resultLabel,
             panicked, engineCalls>>
engineVars == <<pc, username, password, mode, rnd, hash, err, storedHash, verifyPassword, verified>>
codecVars == <<srcA, srcB, encA, encB>>
vars == <<guiVars, engineVars, codecVars>>

----------------------------------------------------------------------------
(* Go string and slice primitives *)

\* s[lo:hi] of Go, for 0 <= lo <= hi <= len(s)
Slice(s, lo, hi) == SubSeq(s, lo + 1, hi)

\* whether Go evaluates s[lo:hi] without a "slice bounds out of range" panic
SliceInRange(s, lo, hi) == 0 <= lo /\ lo <= hi /\ hi <= Len(s)

\* strings.HasPrefix
HasPrefix(s, prefix) ==
    Len(s) >= Len(prefix) /\ SubSeq(s, 1, Len(prefix)) = prefix

\* strings.LastIndex(s, string(c)): the 0-based index of the last c, or -1
LastIndex(s, c) ==
    IF \E i \in 1..Len(s) : s[i] = c
    THEN (CHOOSE i \in 1..Len(s) : s[i] = c /\ \A j \in (i + 1)..Len(s) : s[j] # c) - 1
    ELSE -1

\* strings.Index(s, string(c)): the 0-based index of the first c, or -1
Index(s, c) ==
    IF \E i \in 1..Len(s) : s[i] = c
    THEN (CHOOSE i \in 1..Len(s) : s[i] = c /\ \A j \in 1..(i - 1) : s[j] # c) - 1
    ELSE -1

\* the ASCII white space strings.TrimSpace removes: \t \n \v \f \r and space
WhiteSpace == {9, 10, 11, 12, 13, 32}

\* strings.TrimSpace
TrimSpace(s) ==
    IF \A i \in 1..Len(s) : s[i] \in WhiteSpace
    THEN <<>>
    ELSE LET first == CHOOSE i \in 1..Len(s) :
                          s[i] \notin WhiteSpace /\ \A j \in 1..(i - 1) : s[j] \in WhiteSpace
             last == CHOOSE i \in 1..Len(s) :
                          s[i] \notin WhiteSpace /\ \A j \in (i + 1)..Len(s) : s[j] \in WhiteSpace
         IN SubSeq(s, first, last)

\* strings.SplitN(s, " ", 2)[0]: the part before the first space, or all of s
FirstField(s) ==
    IF Index(s, 32) < 0 THEN s ELSE Slice(s, 0, Index(s, 32))

\* the value of a string of decimal digits "0".."9" (48..57)
RECURSIVE DigitsValue(_, _)
DigitsValue(s, acc) ==
    IF s = <<>> THEN acc ELSE DigitsValue(Tail(s), acc * 10 + (Head(s) - 48))

\* strconv.Atoi: an optional sign and at least one digit, nothing else
Atoi(s) ==
    LET signed == s # <<>> /\ s[1] \in {43, 45}
        digits == IF signed THEN Tail(s) ELSE s
    IN IF digits = <<>> \/ \E i \in 1..Len(digits) : digits[i] \notin 48..57
       THEN [value |-> 0, err |-> TRUE]
       ELSE [value |-> IF signed /\ s[1] = 45 THEN 0 - DigitsValue(digits, 0)
                                               ELSE DigitsValue(digits, 0),
             err |-> FALSE]

\* the %d verb of fmt.Sprintf for n >= 0
RECURSIVE FormatDecimal(_)
FormatDecimal(n) ==
    IF n < 10 THEN <<48 + n>> ELSE FormatDecimal(n \div 10) \o <<48 + (n % 10)>>

\* "0123456789abcdef"
HexDigits == <<48, 49, 50, 51, 52, 53, 54, 55, 56, 57, 97, 98, 99, 100, 101, 102>>

\* fmt.Sprintf("%x", bytes): two lowercase hex digits per byte, high nibble first
FormatHex(bytes) ==
    [i \in 1..(2 * Len(bytes)) |->
        LET b == bytes[(i + 1) \div 2]
        IN IF i % 2 = 1 THEN HexDigits[(b \div 16) + 1] ELSE HexDigits[(b % 16) + 1]]

----------------------------------------------------------------------------
(* Library functions: deterministic stand-ins with the library's lengths *)

\* a position-weighted sum of the bytes s[lo..hi], split in halves to keep the
\* recursion shallow
RECURSIVE WeightedSum(_, _, _)
WeightedSum(s, lo, hi) ==
    IF lo > hi THEN 0
    ELSE IF lo = hi THEN ((lo * 31 + 7) * (s[lo] + 1)) % 65521
    ELSE LET mid == (lo + hi) \div 2
         IN WeightedSum(s, lo, mid) + WeightedSum(s, mid + 1, hi)

\* mixes the bytes of s into the running value acc
Absorb(s, acc) == (acc * 7919 + WeightedSum(s, 1, Len(s)) + Len(s)) % 65521

\* n bytes drawn from seed
Squeeze(seed, n) ==
    [i \in 1..n |-> ((seed + 7 * i) * (2 * i + 1) + (seed \div 256) * i + (seed \div 4096)) % 256]

\* md5.Sum: 16 bytes
md5Sum(s) == Squeeze(Absorb(s, 1), 16)

\* sha1.Sum: 20 bytes
sha1Sum(s) == Squeeze(Absorb(s, 2), 20)

\* sha512.Sum512: 64 bytes
sha512Sum(s) == Squeeze(Absorb(s, 3), 64)

\* whether n is a power of two (N&(N-1) == 0 for N > 0)
RECURSIVE IsPowerOfTwo(_)
IsPowerOfTwo(n) ==
    IF n = 1 THEN TRUE ELSE IF n < 1 \/ n % 2 = 1 THEN FALSE ELSE IsPowerOfTwo(n \div 2)

\* scrypt.Key(password, salt, N, r, p, keyLen): an error for a cost N that is
\* not a power of two greater than 1 or for r*p >= 2^30, else keyLen bytes
scryptKey(pw, salt, N, r, p, keyLen) ==
    IF N <= 1 \/ ~IsPowerOfTwo(N) \/ r * p >= 1073741824
    THEN [dk |-> <<>>, err |-> TRUE]
    ELSE [dk |-> Squeeze(Absorb(salt, Absorb(pw, 4 + N + r + p)), keyLen),
          err |-> FALSE]

\* argon2.IDKey(password, salt, time, memory, threads, keyLen): keyLen bytes
argon2IDKey(pw, salt, time, memory, threads, keyLen) ==
    Squeeze(Absorb(salt, Absorb(pw, 5 + time + memory + threads)), keyLen)

\* "ABCDEFGHIJKLMNOPQRSTUVWXYZabcdefghijklmnopqrstuvwxyz0123456789+/"
stdAlphabet ==
    <<65, 66, 67, 68, 69, 70, 71, 72, 73, 74, 75, 76, 77, 78, 79, 80, 81, 82, 83, 84, 85,
      86, 87, 88, 89, 90, 97, 98, 99, 100, 101, 102, 103, 104, 105, 106, 107, 108, 109,
      110, 111, 112, 113, 114, 115, 116, 117, 118, 119, 120, 121, 122, 48, 49, 50, 51,
      52, 53, 54, 55, 56, 57, 43, 47>>

\* base64.RawStdEncoding.EncodeToString: big-endian groups of 3 bytes, no padding
RECURSIVE RawStdEncode(_, _)
RawStdEncode(src, i) ==
    LET remaining == Len(src) - i
    IN IF remaining >= 3
       THEN LET v == src[i + 1] * 65536 + src[i + 2] * 256 + src[i + 3]
            IN << stdAlphabet[((v \div 262144) % 64) + 1], stdAlphabet[((v \div 4096) % 64) + 1],
                  stdAlphabet[((v \div 64) % 64) + 1], stdAlphabet[(v % 64) + 1] >>
               \o RawStdEncode(src, i + 3)
       ELSE IF remaining = 2
       THEN LET v == src[i + 1] * 65536 + src[i + 2] * 256
            IN << stdAlphabet[((v \div 262144) % 64) + 1], stdAlphabet[((v \div 4096) % 64) + 1],
                  stdAlphabet[((v \div 64) % 64) + 1] >>
       ELSE IF remaining = 1
       THEN LET v == src[i + 1] * 65536
            IN << stdAlphabet[((v \div 262144) % 64) + 1], stdAlphabet[((v \div 4096) % 64) + 1] >>
       ELSE <<>>

\* rand.Read(buf) on the random source rnd: an error, or the first n bytes of
\* the stream
randRead(source, n) == [bytes |-> SubSeq(source.stream, 1, n), err |-> source.err]

----------------------------------------------------------------------------
(* The engine: src/main.go lines 40-222 *)

\* modeNeedsUsername with the entry for mode 12 left out of the map
modeNeedsUsername_without12(m) == m \in {2, 3, 4, 6, 7, 8, 10, 11}

\* modeNeedsUsername[mode]: a missing key of a Go map[int]bool reads false
modeNeedsUsername(m) == m \in {2, 3, 4, 6, 7, 8, 10, 11, 12}

hashMD5(s) == FormatHex(md5Sum(s))

hashSHA1(s) == FormatHex(sha1Sum(s))

hashSHA512(s) == FormatHex(sha512Sum(s))

\* "$argon2id$v=19$m=%d,t=%d,p=%d$%s$%s"
hashArgon2(pw, source) ==
    LET salt == randRead(source, 16)
        timeCost == 2
        memoryCost == 65536
        threads == 1
        keyLen == 32
        key == argon2IDKey(pw, salt.bytes, timeCost, memoryCost, threads, keyLen)
        b64Salt == RawStdEncode(salt.bytes, 0)
        b64Hash == RawStdEncode(key, 0)
    IN IF salt.err
       THEN [hash |-> <<>>, err |-> "rand"]
       ELSE [hash |-> <<36, 97, 114, 103, 111, 110, 50, 105, 100, 36, 118, 61, 49, 57, 36, 109, 61>>
                      \o FormatDecimal(memoryCost) \o <<44, 116, 61>> \o FormatDecimal(timeCost)
                      \o <<44, 112, 61>> \o FormatDecimal(threads) \o <<36>> \o b64Salt
                      \o <<36>> \o b64Hash,
             err |-> "nil"]

\* "./0123456789ABCDEFGHIJKLMNOPQRSTUVWXYZabcdefghijklmnopqrstuvwxyz"
itoa64 ==
    <<46, 47, 48, 49, 50, 51, 52, 53, 54, 55, 56, 57, 65, 66, 67, 68, 69, 70, 71, 72, 73,
      74, 75, 76, 77, 78, 79, 80, 81, 82, 83, 84, 85, 86, 87, 88, 89, 90, 97, 98, 99, 100,
      101, 102, 103, 104, 105, 106, 107, 108, 109, 110, 111, 112, 113, 114, 115, 116, 117,
      118, 119, 120, 121, 122>>

\* encode64Uint32 emitting the most significant 6 bits first
RECURSIVE encode64Uint32_msbFirst(_, _)
encode64Uint32_msbFirst(value, bits) ==
    IF bits > 0
    THEN encode64Uint32_msbFirst(value \div 64, bits - 6) \o <<itoa64[(value % 64) + 1]>>
    ELSE <<>>

\* the loop of encode64Uint32 from counter i on
RECURSIVE encode64Uint32From(_, _, _)
encode64Uint32From(value, bits, i) ==
    IF i < bits
    THEN <<itoa64[(value % 64) + 1]>> \o encode64Uint32From(value \div 64, bits, i + 6)
    ELSE <<>>

\* value is a uint32 that is only shifted right, so its width never matters
encode64Uint32(value, bits) == encode64Uint32From(value, bits, 0)

\* the two symbols encode64Bytes emits for a trailing group of one byte
encodeTail1(v) == << itoa64[(v % 64) + 1], itoa64[((v \div 64) % 64) + 1] >>

\* the three symbols encode64Bytes emits for a trailing group of two bytes
encodeTail2(v) ==
    << itoa64[(v % 64) + 1], itoa64[((v \div 64) % 64) + 1], itoa64[((v \div 4096) % 64) + 1] >>

\* encodeGroup3 with the fourth symbol taken from v>>16 instead of v>>18
encodeGroup3_shift16(v) ==
    << itoa64[(v % 64) + 1], itoa64[((v \div 64) % 64) + 1],
       itoa64[((v \div 4096) % 64) + 1], itoa64[((v \div 65536) % 64) + 1] >>

\* the four symbols encode64Bytes emits for a full group of three bytes
encodeGroup3(v) ==
    << itoa64[(v % 64) + 1], itoa64[((v \div 64) % 64) + 1],
       itoa64[((v \div 4096) % 64) + 1], itoa64[((v \div 262144) % 64) + 1] >>

\* encode64Bytes from index i (0-based) on; src[i] | src[i+1]<<8 | src[i+2]<<16
\* is a sum, the three bytes occupying disjoint bits
RECURSIVE encode64BytesFrom(_, _)
encode64BytesFrom(src, i) ==
    IF i + 3 <= Len(src)
    THEN encodeGroup3(src[i + 1] + src[i + 2] * 256 + src[i + 3] * 65536)
         \o encode64BytesFrom(src, i + 3)
    ELSE LET remaining == Len(src) - i
         IN IF remaining = 1 THEN encodeTail1(src[i + 1])
            ELSE IF remaining = 2 THEN encodeTail2(src[i + 1] + src[i + 2] * 256)
            ELSE <<>>

encode64Bytes(src) == encode64BytesFrom(src, 0)

\* hashSCrypt handing the raw salt bytes, not the encoded salt, to scrypt.Key
hashSCrypt_rawSalt(pw, source) ==
    LET rawSalt == randRead(source, 32)
        key == scryptKey(pw, rawSalt.bytes, 16384, 8, 1, 32)
    IN IF rawSalt.err THEN [hash |-> <<>>, err |-> "rand"]
       ELSE IF key.err THEN [hash |-> <<>>, err |-> "kdf"]
       ELSE [hash |-> <<36, 55, 36>>
                      \o encode64Uint32(14, 6) \o encode64Uint32(8, 30) \o encode64Uint32(1, 30)
                      \o encode64Bytes(rawSalt.bytes) \o <<36>>
                      \o encode64Bytes(key.dk),
             err |-> "nil"]

\* hashSCrypt: N = 16384, r = 8, p = 1, keyLen = 32, log2N = 14; the scrypt
\* salt is the ENCODED salt string
hashSCrypt(pw, source) ==
    LET rawSalt == randRead(source, 32)
        N == 16384
        r == 8
        p == 1
        keyLen == 32
        encodedSalt == encode64Bytes(rawSalt.bytes)
        key == scryptKey(pw, encodedSalt, N, r, p, keyLen)
        log2N == 14
    IN IF rawSalt.err THEN [hash |-> <<>>, err |-> "rand"]
       ELSE IF key.err THEN [hash |-> <<>>, err |-> "kdf"]
       ELSE [hash |-> <<36, 55, 36>>
                      \o encode64Uint32(log2N, 6)
                      \o encode64Uint32(r, 30)
                      \o encode64Uint32(p, 30)
                      \o encodedSalt \o <<36>>
                      \o encode64Bytes(key.dk),
             err |-> "nil"]

\* verifySCrypt without the test of the "$7$" prefix
verifySCrypt_noPrefixTest(stored, pw) ==
    IF Len(stored) < 14
    THEN [ok |-> FALSE, panic |-> FALSE, kdfRan |-> FALSE]
    ELSE LET lastDollar == LastIndex(stored, 36)
         IN IF lastDollar <= 3
            THEN [ok |-> FALSE, panic |-> FALSE, kdfRan |-> FALSE]
            ELSE IF ~SliceInRange(stored, 14, lastDollar)
            THEN [ok |-> FALSE, panic |-> TRUE, kdfRan |-> FALSE]
            ELSE LET key == scryptKey(pw, Slice(stored, 14, lastDollar), 16384, 8, 1, 32)
                 IN [ok |-> ~key.err /\ encode64Bytes(key.dk)
                                        = Slice(stored, lastDollar + 1, Len(stored)),
                     panic |-> FALSE, kdfRan |-> TRUE]

\* verifySCrypt comparing only as many characters as the stored hash part has
verifySCrypt_prefixCompare(stored, pw) ==
    IF Len(stored) < 14 \/ Slice(stored, 0, 3) # <<36, 55, 36>>
    THEN [ok |-> FALSE, panic |-> FALSE, kdfRan |-> FALSE]
    ELSE LET lastDollar == LastIndex(stored, 36)
         IN IF lastDollar <= 3
            THEN [ok |-> FALSE, panic |-> FALSE, kdfRan |-> FALSE]
            ELSE IF ~SliceInRange(stored, 14, lastDollar)
            THEN [ok |-> FALSE, panic |-> TRUE, kdfRan |-> FALSE]
            ELSE LET key == scryptKey(pw, Slice(stored, 14, lastDollar), 16384, 8, 1, 32)
                 IN [ok |-> ~key.err /\ HasPrefix(encode64Bytes(key.dk),
                                                  Slice(stored, lastDollar + 1, Len(stored))),
                     panic |-> FALSE, kdfRan |-> TRUE]

\* verifySCrypt.  ok is the boolean returned; panic is TRUE when the slice
\* expression storedHash[14:lastDollar] is out of range, which ends the Go
\* process instead of returning; kdfRan tells whether scrypt.Key was called
verifySCrypt(stored, pw) ==
    IF Len(stored) < 14 \/ Slice(stored, 0, 3) # <<36, 55, 36>>
    THEN [ok |-> FALSE, panic |-> FALSE, kdfRan |-> FALSE]
    ELSE LET lastDollar == LastIndex(stored, 36)
         IN IF lastDollar <= 3
            THEN [ok |-> FALSE, panic |-> FALSE, kdfRan |-> FALSE]
            ELSE IF ~SliceInRange(stored, 14, lastDollar)
            THEN [ok |-> FALSE, panic |-> TRUE, kdfRan |-> FALSE]
            ELSE LET encodedSalt == Slice(stored, 14, lastDollar)
                     expectedDK == Slice(stored, lastDollar + 1, Len(stored))
                     key == scryptKey(pw, encodedSalt, 16384, 8, 1, 32)
                 IN IF key.err
                    THEN [ok |-> FALSE, panic |-> FALSE, kdfRan |-> TRUE]
                    ELSE [ok |-> encode64Bytes(key.dk) = expectedDK,
                          panic |-> FALSE, kdfRan |-> TRUE]

\* eqcryptHash whose default branch returns no error
eqcryptHash_defaultNoError(u, pw, m, source) ==
    CASE m = 1 -> [hash |-> hashMD5(pw), err |-> "nil"]
      [] m = 2 -> [hash |-> hashMD5(pw \o <<58>> \o u), err |-> "nil"]
      [] m = 3 -> [hash |-> hashMD5(u \o <<58>> \o pw), err |-> "nil"]
      [] m = 4 -> [hash |-> hashMD5(hashMD5(u) \o hashMD5(pw)), err |-> "nil"]
      [] m = 5 -> [hash |-> hashSHA1(pw), err |-> "nil"]
      [] m = 6 -> [hash |-> hashSHA1(pw \o <<58>> \o u), err |-> "nil"]
      [] m = 7 -> [hash |-> hashSHA1(u \o <<58>> \o pw), err |-> "nil"]
      [] m = 8 -> [hash |-> hashSHA1(hashSHA1(u) \o hashSHA1(pw)), err |-> "nil"]
      [] m = 9 -> [hash |-> hashSHA512(pw), err |-> "nil"]
      [] m = 10 -> [hash |-> hashSHA512(pw \o <<58>> \o u), err |-> "nil"]
      [] m = 11 -> [hash |-> hashSHA512(u \o <<58>> \o pw), err |-> "nil"]
      [] m = 12 -> [hash |-> hashSHA512(hashSHA512(u) \o hashSHA512(pw)), err |-> "nil"]
      [] m = 13 -> hashArgon2(pw, source)
      [] m = 14 -> hashSCrypt(pw, source)
      [] OTHER -> [hash |-> <<>>, err |-> "nil"]

\* eqcryptHash with the operands of mode 6 in the order of mode 7
eqcryptHash_mode6Swapped(u, pw, m, source) ==
    CASE m = 1 -> [hash |-> hashMD5(pw), err |-> "nil"]
      [] m = 2 -> [hash |-> hashMD5(pw \o <<58>> \o u), err |-> "nil"]
      [] m = 3 -> [hash |-> hashMD5(u \o <<58>> \o pw), err |-> "nil"]
      [] m = 4 -> [hash |-> hashMD5(hashMD5(u) \o hashMD5(pw)), err |-> "nil"]
      [] m = 5 -> [hash |-> hashSHA1(pw), err |-> "nil"]
      [] m = 6 -> [hash |-> hashSHA1(u \o <<58>> \o pw), err |-> "nil"]
      [] m = 7 -> [hash |-> hashSHA1(u \o <<58>> \o pw), err |-> "nil"]
      [] m = 8 -> [hash |-> hashSHA1(hashSHA1(u) \o hashSHA1(pw)), err |-> "nil"]
      [] m = 9 -> [hash |-> hashSHA512(pw), err |-> "nil"]
      [] m = 10 -> [hash |-> hashSHA512(pw \o <<58>> \o u), err |-> "nil"]
      [] m = 11 -> [hash |-> hashSHA512(u \o <<58>> \o pw), err |-> "nil"]
      [] m = 12 -> [hash |-> hashSHA512(hashSHA512(u) \o hashSHA512(pw)), err |-> "nil"]
      [] m = 13 -> hashArgon2(pw, source)
      [] m = 14 -> hashSCrypt(pw, source)
      [] OTHER -> [hash |-> <<>>, err |-> "unsupported encryption mode"]

\* eqcryptHash: the hash and the error ("nil" for none)
eqcryptHash(u, pw, m, source) ==
    CASE m = 1 -> [hash |-> hashMD5(pw), err |-> "nil"]
      [] m = 2 -> [hash |-> hashMD5(pw \o <<58>> \o u), err |-> "nil"]
      [] m = 3 -> [hash |-> hashMD5(u \o <<58>> \o pw), err |-> "nil"]
      [] m = 4 -> [hash |-> hashMD5(hashMD5(u) \o hashMD5(pw)), err |-> "nil"]
      [] m = 5 -> [hash |-> hashSHA1(pw), err |-> "nil"]
      [] m = 6 -> [hash |-> hashSHA1(pw \o <<58>> \o u), err |-> "nil"]
      [] m = 7 -> [hash |-> hashSHA1(u \o <<58>> \o pw), err |-> "nil"]
      [] m = 8 -> [hash |-> hashSHA1(hashSHA1(u) \o hashSHA1(pw)), err |-> "nil"]
      [] m = 9 -> [hash |-> hashSHA512(pw), err |-> "nil"]
      [] m = 10 -> [hash |-> hashSHA512(pw \o <<58>> \o u), err |-> "nil"]
      [] m = 11 -> [hash |-> hashSHA512(u \o <<58>> \o pw), err |-> "nil"]
      [] m = 12 -> [hash |-> hashSHA512(hashSHA512(u) \o hashSHA512(pw)), err |-> "nil"]
      [] m = 13 -> hashArgon2(pw, source)
      [] m = 14 -> hashSCrypt(pw, source)
      [] OTHER -> [hash |-> <<>>, err |-> "unsupported encryption mode"]

\* parseModeFromSelection: the number before the first space, 0 when there is none
parseModeFromSelection(sel) ==
    LET mode_ == Atoi(FirstField(sel))
    IN IF mode_.err THEN 0 ELSE mode_.value

----------------------------------------------------------------------------
(* Inputs *)

\* number of patterned random streams besides the all-0x00 and all-0xff ones
NumStreams == 2

\* what rand.Read can deliver: an error, or 32 bytes of some stream
RandomStreams ==
    {[i \in 1..32 |-> 0], [i \in 1..32 |-> 255]}
    \cup {[i \in 1..32 |-> (k * 41 + i * (k + 2) * 7 + i * i) % 256] : k \in 1..NumStreams}

RandomSources ==
    {[stream |-> [i \in 1..32 |-> 0], err |-> TRUE]}
    \cup {[stream |-> s, err |-> FALSE] : s \in RandomStreams}

\* "", "tester"
Usernames == {<<>>, <<116, 101, 115, 116, 101, 114>>}

\* "", "hunter2", "wrong"
Passwords == {<<>>, <<104, 117, 110, 116, 101, 114, 50>>, <<119, 114, 111, 110, 103>>}

\* modes handed to eqcryptHash directly: the 14 of the enum and values around them
ModeInputs == -1..16

----------------------------------------------------------------------------
(* The user interface: src/main.go lines 23-38 and 224-396 *)

modeOptions ==
    <<
      \* "1 - MD5"
      <<49, 32, 45, 32, 77, 68, 53>>,
      \* "2 - MD5 (password:username)"
      <<50, 32, 45, 32, 77, 68, 53, 32, 40, 112, 97, 115, 115, 119, 111, 114, 100, 58,
        117, 115, 101, 114, 110, 97, 109, 101, 41>>,
      \* "3 - MD5 (username:password)"
      <<51, 32, 45, 32, 77, 68, 53, 32, 40, 117, 115, 101, 114, 110, 97, 109, 101, 58,
        112, 97, 115, 115, 119, 111, 114, 100, 41>>,
      \* "4 - MD5 Triple"
      <<52, 32, 45, 32, 77, 68, 53, 32, 84, 114, 105, 112, 108, 101>>,
      \* "5 - SHA1"
      <<53, 32, 45, 32, 83, 72, 65, 49>>,
      \* "6 - SHA1 (password:username) [default without ENABLE_SECURITY]"
      <<54, 32, 45, 32, 83, 72, 65, 49, 32, 40, 112, 97, 115, 115, 119, 111, 114, 100,
        58, 117, 115, 101, 114, 110, 97, 109, 101, 41, 32, 91, 100, 101, 102, 97, 117,
        108, 116, 32, 119, 105, 116, 104, 111, 117, 116, 32, 69, 78, 65, 66, 76, 69, 95,
        83, 69, 67, 85, 82, 73, 84, 89, 93>>,
      \* "7 - SHA1 (username:password)"
      <<55, 32, 45, 32, 83, 72, 65, 49, 32, 40, 117, 115, 101, 114, 110, 97, 109, 101,
        58, 112, 97, 115, 115, 119, 111, 114, 100, 41>>,
      \* "8 - SHA1 Triple"
      <<56, 32, 45, 32, 83, 72, 65, 49, 32, 84, 114, 105, 112, 108, 101>>,
      \* "9 - SHA512"
      <<57, 32, 45, 32, 83, 72, 65, 53, 49, 50>>,
      \* "10 - SHA512 (password:username)"
      <<49, 48, 32, 45, 32, 83, 72, 65, 53, 49, 50, 32, 40, 112, 97, 115, 115, 119,
        111, 114, 100, 58, 117, 115, 101, 114, 110, 97, 109, 101, 41>>,
      \* "11 - SHA512 (username:password)"
      <<49, 49, 32, 45, 32, 83, 72, 65, 53, 49, 50, 32, 40, 117, 115, 101, 114, 110,
        97, 109, 101, 58, 112, 97, 115, 115, 119, 111, 114, 100, 41>>,
      \* "12 - SHA512 Triple"
      <<49, 50, 32, 45, 32, 83, 72, 65, 53, 49, 50, 32, 84, 114, 105, 112, 108, 101>>,
      \* "13 - Argon2 [default with ENABLE_SECURITY]"
      <<49, 51, 32, 45, 32, 65, 114, 103, 111, 110, 50, 32, 91, 100, 101, 102, 97,
        117, 108, 116, 32, 119, 105, 116, 104, 32, 69, 78, 65, 66, 76, 69, 95, 83, 69,
        67, 85, 82, 73, 84, 89, 93>>,
      \* "14 - SCrypt"
      <<49, 52, 32, 45, 32, 83, 67, 114, 121, 112, 116>>
    >>

\* the text of a label: a format string of the source and its integer
\* arguments; err is the error value printed by %v ("nil" when there is none)
Label(text, args) == [text |-> text, args |-> args, err |-> "nil"]

ErrorLabel(e) == [text |-> "Error: %v", args |-> <<>>, err |-> e]

\* modeSelect.OnChanged
OnChanged(sel) ==
    IF modeNeedsUsername(parseModeFromSelection(sel))
    THEN Label("Username is required for this mode", <<>>)
    ELSE Label("Username is not used for this mode", <<>>)

\* the widgets right after buildGenerateTab: entry 14 is selected before
\* OnChanged is installed
GenerateTabInit ==
    /\ usernameEntry = <<>>
    /\ passwordEntry = <<>>
    /\ modeSelect = modeOptions[14]
    /\ usernameNote = Label("Username is not used for this mode", <<>>)
    /\ outputEntry = <<>>

\* the widgets right after buildVerifyTab
VerifyTabInit ==
    /\ hashEntry = <<>>
    /\ verifyPasswordEntry = <<>>
    /\ resultLabel = Label("", <<>>)

\* no direct call of the engine is in progress
EngineIdle ==
    /\ pc = "gui"
    /\ username = <<>>
    /\ password = <<>>
    /\ mode = 0
    /\ rnd = [stream |-> [i \in 1..32 |-> 0], err |-> FALSE]
    /\ hash = <<>>
    /\ err = "nil"
    /\ storedHash = <<>>
    /\ verifyPassword = <<>>
    /\ verified = [ok |-> FALSE, panic |-> FALSE, kdfRan |-> FALSE]

CodecIdle ==
    /\ srcA = <<>>
    /\ srcB = <<>>
    /\ encA = <<>>
    /\ encB = <<>>

(* Generate tab *)

\* the user edits the username entry
TypeUsername(u) ==
    /\ ~panicked
    /\ usernameEntry' = u
    /\ UNCHANGED <<passwordEntry, modeSelect, usernameNote, outputEntry, statusLabel,
                   clipboard, hashEntry, verifyPasswordEntry, resultLabel, panicked,
                   engineCalls, engineVars, codecVars>>

\* the user edits the password entry
TypePassword(pw) ==
    /\ ~panicked
    /\ passwordEntry' = pw
    /\ UNCHANGED <<usernameEntry, modeSelect, usernameNote, outputEntry, statusLabel,
                   clipboard, hashEntry, verifyPasswordEntry, resultLabel, panicked,
                   engineCalls, engineVars, codecVars>>

\* the user picks entry i of the mode list; the Select widget calls OnChanged
SelectMode(i) ==
    /\ ~panicked
    /\ modeSelect' = modeOptions[i]
    /\ usernameNote' = OnChanged(modeOptions[i])
    /\ UNCHANGED <<usernameEntry, passwordEntry, outputEntry, statusLabel,
                   clipboard, hashEntry, verifyPasswordEntry, resultLabel, panicked,
                   engineCalls, engineVars, codecVars>>

\* the "Generate Hash" button
GenerateClicked(source) ==
    /\ ~panicked
    /\ LET mode_ == parseModeFromSelection(modeSelect)
           r == eqcryptHash(usernameEntry, passwordEntry, mode_, source)
       IN IF mode_ = 0
          THEN /\ statusLabel' = Label("Please select an encryption mode", <<>>)
               /\ engineCalls' = <<>>
               /\ UNCHANGED outputEntry
          ELSE IF passwordEntry = <<>>
          THEN /\ statusLabel' = Label("Password is required", <<>>)
               /\ engineCalls' = <<>>
               /\ UNCHANGED outputEntry
          ELSE IF modeNeedsUsername(mode_) /\ usernameEntry = <<>>
          THEN /\ statusLabel' = Label("Username is required for this mode", <<>>)
               /\ engineCalls' = <<>>
               /\ UNCHANGED outputEntry
          ELSE IF r.err # "nil"
          THEN /\ statusLabel' = ErrorLabel(r.err)
               /\ outputEntry' = <<>>
               /\ engineCalls' = <<"eqcryptHash">>
          ELSE /\ outputEntry' = r.hash
               /\ statusLabel' = Label("Mode %d hash generated (%d chars)",
                                       <<mode_, Len(r.hash)>>)
               /\ engineCalls' = <<"eqcryptHash">>
    /\ UNCHANGED <<usernameEntry, passwordEntry, modeSelect, usernameNote,
                   clipboard, hashEntry, verifyPasswordEntry, resultLabel, panicked,
                   engineVars, codecVars>>

(* Verify tab *)

\* the user edits the hash entry
TypeHash(s) ==
    /\ ~panicked
    /\ hashEntry' = s
    /\ UNCHANGED <<usernameEntry, passwordEntry, modeSelect, usernameNote, outputEntry,
                   statusLabel, clipboard, verifyPasswordEntry, resultLabel, panicked,
                   engineCalls, engineVars, codecVars>>

\* the user edits the password entry of the Verify tab
TypeVerifyPassword(pw) ==
    /\ ~panicked
    /\ verifyPasswordEntry' = pw
    /\ UNCHANGED <<usernameEntry, passwordEntry, modeSelect, usernameNote, outputEntry,
                   statusLabel, clipboard, hashEntry, resultLabel, panicked,
                   engineCalls, engineVars, codecVars>>

\* the "Paste from Clipboard" button
PasteClicked ==
    /\ ~panicked
    /\ hashEntry' = TrimSpace(clipboard)
    /\ statusLabel' = Label("Pasted %d chars (trimmed whitespace)", <<Len(TrimSpace(clipboard))>>)
    /\ engineCalls' = <<>>
    /\ UNCHANGED <<usernameEntry, passwordEntry, modeSelect, usernameNote, outputEntry,
                   clipboard, verifyPasswordEntry, resultLabel, panicked,
                   engineVars, codecVars>>

\* the "Verify" button.  A panic inside verifySCrypt is not recovered: the
\* status label has been set, the result label has not, and the process ends
VerifyClicked ==
    /\ ~panicked
    /\ LET hash_ == TrimSpace(hashEntry)
           password_ == verifyPasswordEntry
           r == verifySCrypt(hash_, password_)
       IN IF hash_ = <<>> \/ password_ = <<>>
          THEN /\ statusLabel' = Label("Both hash and password are required", <<>>)
               /\ engineCalls' = <<>>
               /\ UNCHANGED <<resultLabel, panicked>>
          ELSE /\ statusLabel' = Label("Hash length: %d chars", <<Len(hash_)>>)
               /\ IF HasPrefix(hash_, <<36, 55, 36>>)
                  THEN /\ engineCalls' = <<"verifySCrypt">>
                       /\ IF r.panic
                          THEN /\ panicked' = TRUE
                               /\ UNCHANGED resultLabel
                          ELSE /\ resultLabel' =
                                     IF r.ok
                                     THEN Label("PASS - Password matches this SCrypt hash", <<>>)
                                     ELSE Label("FAIL - Password does NOT match this SCrypt hash", <<>>)
                               /\ UNCHANGED panicked
                  ELSE IF HasPrefix(hash_, <<36, 97, 114, 103, 111, 110, 50>>)
                  THEN /\ resultLabel' =
                             Label("Argon2 verification not yet supported in verify tab", <<>>)
                       /\ engineCalls' = <<>>
                       /\ UNCHANGED panicked
                  ELSE /\ resultLabel' =
                             Label("Hash is %d chars (MD5=32, SHA1=40, SHA512=128) - use Generate tab to compare",
                                   <<Len(hash_)>>)
                       /\ engineCalls' = <<>>
                       /\ UNCHANGED panicked
    /\ UNCHANGED <<usernameEntry, passwordEntry, modeSelect, usernameNote, outputEntry,
                   clipboard, hashEntry, verifyPasswordEntry, engineVars, codecVars>>

----------------------------------------------------------------------------
(* Specifications *)

\* s with the byte at 0-based index i replaced by c
WithByte(s, i, c) == [s EXCEPT ![i + 1] = c]

\* a well-formed scrypt hash of "hunter2"
SampleSCrypt ==
    hashSCrypt(<<104, 117, 110, 116, 101, 114, 50>>,
               [stream |-> [i \in 1..32 |-> 255], err |-> FALSE]).hash

\* the same string with a '$' at index 7, inside the parameter block
SampleDollar7 == WithByte(SampleSCrypt, 7, 36)

\* an Argon2id hash and an MD5 hash of "hunter2"
SampleArgon2 ==
    hashArgon2(<<104, 117, 110, 116, 101, 114, 50>>,
               [stream |-> [i \in 1..32 |-> 255], err |-> FALSE]).hash

SampleMD5 == hashMD5(<<104, 117, 110, 116, 101, 114, 50>>)

(* The Generate tab *)

\* texts the user types into the password entry: "", "hunter2"
TypedPasswords == {<<>>, <<104, 117, 110, 116, 101, 114, 50>>}

InitGenerateTab ==
    /\ GenerateTabInit
    /\ VerifyTabInit
    /\ statusLabel = Label("", <<>>)
    /\ clipboard = <<>>
    /\ panicked = FALSE
    /\ engineCalls = <<>>
    /\ EngineIdle
    /\ CodecIdle

NextGenerateTab ==
    \/ \E u \in Usernames : TypeUsername(u)
    \/ \E pw \in TypedPasswords : TypePassword(pw)
    \/ \E i \in 1..Len(modeOptions) : SelectMode(i)
    \/ \E source \in RandomSources : GenerateClicked(source)

SpecGenerateTab == InitGenerateTab /\ [][NextGenerateTab]_vars

(* The Verify tab *)

\* texts the user types or pastes into the hash entry
HashTexts ==
    { <<>>, <<32, 32>>,
      SampleSCrypt, <<32>> \o SampleSCrypt \o <<10>>,
      SampleDollar7, Slice(SampleDollar7, 0, 16),
      Slice(SampleSCrypt, 0, 3), Slice(SampleSCrypt, 0, 13), Slice(SampleSCrypt, 0, 14),
      SampleArgon2, Slice(SampleArgon2, 0, 7),
      SampleMD5 }

\* what the system clipboard holds when the program starts
ClipboardContents ==
    { <<>>, <<9>> \o SampleSCrypt \o <<13, 10>>, SampleDollar7 \o <<32>>, SampleMD5 }

InitVerifyTab ==
    /\ GenerateTabInit
    /\ VerifyTabInit
    /\ statusLabel = Label("", <<>>)
    /\ clipboard \in ClipboardContents
    /\ panicked = FALSE
    /\ engineCalls = <<>>
    /\ EngineIdle
    /\ CodecIdle

NextVerifyTab ==
    \/ \E s \in HashTexts : TypeHash(s)
    \/ \E pw \in Passwords : TypeVerifyPassword(pw)
    \/ PasteClicked
    \/ VerifyClicked

SpecVerifyTab == InitVerifyTab /\ [][NextVerifyTab]_vars

(* Direct calls of the engine functions *)

\* length up to which stored-hash strings are probed byte by byte
ProbeLen == 20

\* stored hashes handed to verifySCrypt that this program did not produce:
\* every prefix of a well-formed hash and of one with a '$' in its parameter
\* block, a '$' at every index from 3 on of a short and of a full string,
\* every byte of the "$7$" prefix changed, and hashes of the other formats
StoredHashes ==
    {Slice(SampleSCrypt, 0, n) : n \in 0..ProbeLen}
    \cup {Slice(SampleDollar7, 0, n) : n \in 0..ProbeLen}
    \cup {WithByte(Slice(SampleSCrypt, 0, ProbeLen), j, 36) : j \in 3..(ProbeLen - 1)}
    \cup {WithByte(SampleSCrypt, j, 36) : j \in 3..(ProbeLen - 1)}
    \cup {WithByte(SampleSCrypt, j, 65) : j \in 0..2}
    \cup {SampleSCrypt, SampleArgon2, SampleMD5}

\* bytes written over a character of the hash part: '$', '=', ' ', '.', 'z'
TamperBytes == {36, 61, 32, 46, 122}

InitEngine ==
    /\ GenerateTabInit
    /\ VerifyTabInit
    /\ statusLabel = Label("", <<>>)
    /\ clipboard = <<>>
    /\ panicked = FALSE
    /\ engineCalls = <<>>
    /\ CodecIdle
    /\ pc = "start"
    /\ username \in Usernames
    /\ password \in Passwords
    /\ mode \in ModeInputs
    /\ rnd = [stream |-> [i \in 1..32 |-> 0], err |-> FALSE]
    /\ hash = <<>>
    /\ err = "nil"
    /\ storedHash = <<>>
    /\ verifyPassword = <<>>
    /\ verified = [ok |-> FALSE, panic |-> FALSE, kdfRan |-> FALSE]

\* hash, err := eqcryptHash(username, password, mode)
CallEqcryptHash(source) ==
    /\ pc = "start"
    /\ LET r == eqcryptHash(username, password, mode, source)
       IN /\ hash' = r.hash
          /\ err' = r.err
          /\ storedHash' = r.hash
    /\ rnd' = source
    /\ pc' = "hashed"
    /\ UNCHANGED <<username, password, mode, verifyPassword, verified, guiVars, codecVars>>

\* one character after the final '$' of a generated scrypt hash is replaced
\* by a different one
Tamper(i, c) ==
    /\ pc = "hashed"
    /\ mode = 14
    /\ err = "nil"
    /\ i > LastIndex(hash, 36)
    /\ i < Len(hash)
    /\ c # hash[i + 1]
    /\ storedHash' = WithByte(hash, i, c)
    /\ pc' = "tampered"
    /\ UNCHANGED <<username, password, mode, rnd, hash, err, verifyPassword, verified,
                   guiVars, codecVars>>

\* verifySCrypt(storedHash, pw) on what eqcryptHash returned, tampered with or not
CallVerifySCrypt(pw) ==
    /\ pc \in {"hashed", "tampered"}
    /\ verifyPassword' = pw
    /\ verified' = verifySCrypt(storedHash, pw)
    /\ pc' = IF pc = "hashed" THEN "verified" ELSE "verifiedTampered"
    /\ UNCHANGED <<username, password, mode, rnd, hash, err, storedHash, guiVars, codecVars>>

\* verifySCrypt(s, pw) on a stored hash from elsewhere
CallVerifyForeign(s, pw) ==
    /\ pc = "start"
    /\ storedHash' = s
    /\ verifyPassword' = pw
    /\ verified' = verifySCrypt(s, pw)
    /\ pc' = "verifiedForeign"
    /\ UNCHANGED <<username, password, mode, rnd, hash, err, guiVars, codecVars>>

NextEngine ==
    \/ \E source \in RandomSources : CallEqcryptHash(source)
    \/ \E i \in 0..(Len(hash) - 1), c \in TamperBytes : Tamper(i, c)
    \/ \E pw \in Passwords : CallVerifySCrypt(pw)
    \/ \E s \in StoredHashes, pw \in Passwords : CallVerifyForeign(s, pw)

SpecEngine == InitEngine /\ [][NextEngine]_vars

(* Direct calls of the codec *)

\* longest byte sequence enumerated in full
MaxLen == 3

\* byte values with no bit, bit 0, bit 6, bit 7 and every bit set
CodecBytes == {0, 1, 64, 128, 255}

RECURSIVE ByteSeqs(_)
ByteSeqs(n) ==
    IF n = 0 THEN {<<>>}
    ELSE ByteSeqs(n - 1)
         \cup {Append(q, b) : q \in {x \in ByteSeqs(n - 1) : Len(x) = n - 1}, b \in CodecBytes}

\* all short sequences, and the 4-, 31- and 32-byte heads of the random streams
CodecInputs ==
    ByteSeqs(MaxLen)
    \cup {SubSeq(q, 1, 4) : q \in RandomStreams}
    \cup {SubSeq(q, 1, 31) : q \in RandomStreams}
    \cup {SubSeq(q, 1, 32) : q \in RandomStreams}

InitCodec ==
    /\ GenerateTabInit
    /\ VerifyTabInit
    /\ statusLabel = Label("", <<>>)
    /\ clipboard = <<>>
    /\ panicked = FALSE
    /\ engineCalls = <<>>
    /\ pc = "start"
    /\ username = <<>>
    /\ password = <<>>
    /\ mode = 0
    /\ rnd = [stream |-> [i \in 1..32 |-> 0], err |-> FALSE]
    /\ hash = <<>>
    /\ err = "nil"
    /\ storedHash = <<>>
    /\ verifyPassword = <<>>
    /\ verified = [ok |-> FALSE, panic |-> FALSE, kdfRan |-> FALSE]
    /\ srcA \in CodecInputs
    /\ srcB \in CodecInputs
    /\ encA = <<>>
    /\ encB = <<>>

\* encode64Bytes(srcA) and encode64Bytes(srcB)
CallEncode64Bytes ==
    /\ pc = "start"
    /\ encA' = encode64Bytes(srcA)
    /\ encB' = encode64Bytes(srcB)
    /\ pc' = "encoded"
    /\ UNCHANGED <<srcA, srcB, username, password, mode, rnd, hash, err, storedHash,
                   verifyPassword, verified, guiVars>>

NextCodec == CallEncode64Bytes

SpecCodec == InitCodec /\ [][NextCodec]_vars

----------------------------------------------------------------------------
(* Properties *)

\* a direct call of eqcryptHash has returned
Hashed == pc \in {"hashed", "tampered", "verified", "verifiedTampered"}

\* a direct call of verifySCrypt has returned or panicked
VerifyCalled == pc \in {"verified", "verifiedTampered", "verifiedForeign"}

\* C1: a hash returned by eqcryptHash(u, p, 14) for a non-empty password p
\* verifies against p, whatever salt was drawn, and the salt the verifier cuts
\* out of it (index 14 to the last '$') is the encoded salt of the generator.
C1_SelfVerify ==
    (pc = "verified" /\ mode = 14 /\ err = "nil" /\ password # <<>>
       /\ verifyPassword = password)
    => /\ verified.ok
       /\ ~verified.panic
       /\ Slice(storedHash, 14, LastIndex(storedHash, 36))
            = encode64Bytes(randRead(rnd, 32).bytes)

C1_Witness ==
    /\ pc = "verified" /\ mode = 14 /\ err = "nil" /\ password # <<>>
    /\ verifyPassword = password
    /\ rnd.stream \notin {[i \in 1..32 |-> 0], [i \in 1..32 |-> 255]}
    /\ verified.kdfRan

\* C2: verifySCrypt returns a boolean for every stored hash and password, never
\* panics, and returns false for every malformed stored hash (shorter than 14,
\* not starting with "$7$", or without a '$' at index 14 or later).
C2_VerifyNeverCrashes ==
    VerifyCalled
    => /\ ~verified.panic
       /\ (Len(storedHash) < 14 \/ ~HasPrefix(storedHash, <<36, 55, 36>>)
             \/ LastIndex(storedHash, 36) < 14) => ~verified.ok

\* C3: for a stored hash shorter than 14 characters or not starting with "$7$"
\* verifySCrypt returns false, without a panic and without calling scrypt.Key.
C3_ShortOrForeignRejected ==
    (VerifyCalled /\ (Len(storedHash) < 14 \/ ~HasPrefix(storedHash, <<36, 55, 36>>)))
    => (~verified.ok /\ ~verified.panic /\ ~verified.kdfRan)

C3_Witness ==
    /\ pc = "verified" /\ mode = 13 /\ err = "nil"
    /\ Len(storedHash) >= 14
    /\ LastIndex(storedHash, 36) > 14
    /\ ~HasPrefix(storedHash, <<36, 55, 36>>)
    /\ ~verified.ok

\* C4: eqcryptHash returns the unsupported-mode error, with an empty hash,
\* exactly for the modes outside 1..14; modes 1..12 return a hash and no error;
\* modes 13 and 14 return an error only when rand.Read or the KDF failed.
C4_UnsupportedMode ==
    Hashed
    => /\ (mode \notin 1..14) <=> (err = "unsupported encryption mode")
       /\ (err = "unsupported encryption mode") => (hash = <<>>)
       /\ (mode \in 1..12) => (err = "nil" /\ hash # <<>>)
       /\ (mode \in 13..14 /\ err # "nil")
            => \/ rnd.err
               \/ mode = 14 /\ scryptKey(password, encode64Bytes(randRead(rnd, 32).bytes),
                                         16384, 8, 1, 32).err

C4_Witness ==
    /\ pc = "hashed" /\ mode = -1
    /\ err = "unsupported encryption mode" /\ hash = <<>>

\* C5: modeNeedsUsername is true exactly for modes 2,3,4,6,7,8,10,11,12; a
\* click on Generate with an empty password, or with an empty username in a
\* mode that needs one, neither calls eqcryptHash nor changes the output
\* entry; the mode is checked first, then the password, then the username.
C5_UsernamePolicy ==
    [][ (\E source \in RandomSources : GenerateClicked(source))
        => LET m == parseModeFromSelection(modeSelect)
               needs == m \in {2, 3, 4, 6, 7, 8, 10, 11, 12}
           IN /\ \A k \in ModeInputs :
                    modeNeedsUsername(k) <=> k \in {2, 3, 4, 6, 7, 8, 10, 11, 12}
              /\ (passwordEntry = <<>> \/ (needs /\ usernameEntry = <<>>))
                    => (engineCalls' = <<>> /\ outputEntry' = outputEntry)
              /\ (m = 0)
                    => statusLabel' = Label("Please select an encryption mode", <<>>)
              /\ (m # 0 /\ passwordEntry = <<>>)
                    => statusLabel' = Label("Password is required", <<>>)
              /\ (m # 0 /\ passwordEntry # <<>> /\ needs /\ usernameEntry = <<>>)
                    => statusLabel' = Label("Username is required for this mode", <<>>)
              /\ (m # 0 /\ passwordEntry # <<>> /\ ~(needs /\ usernameEntry = <<>>))
                    => engineCalls' = <<"eqcryptHash">>
      ]_vars

C5_Witness ==
    /\ statusLabel = Label("Password is required", <<>>)
    /\ passwordEntry = <<>>
    /\ usernameEntry = <<>>
    /\ parseModeFromSelection(modeSelect) = 12
    /\ engineCalls = <<>>
    /\ outputEntry # <<>>

\* C6: a click on Verify with a non-empty trimmed hash and a non-empty password
\* produces exactly one of four outcomes, chosen by the prefix: "$7$" gives PASS
\* or FAIL as verifySCrypt says, "$argon2" gives the unsupported message, any
\* other string the format message; verifySCrypt is called for "$7$" only.
C6_VerifyClassification ==
    [][ (VerifyClicked /\ TrimSpace(hashEntry) # <<>> /\ verifyPasswordEntry # <<>>)
        => LET h == TrimSpace(hashEntry)
               scrypt_ == HasPrefix(h, <<36, 55, 36>>)
               argon_ == ~scrypt_ /\ HasPrefix(h, <<36, 97, 114, 103, 111, 110, 50>>)
           IN /\ ~panicked'
              /\ scrypt_
                   => /\ engineCalls' = <<"verifySCrypt">>
                      /\ resultLabel' =
                           IF verifySCrypt(h, verifyPasswordEntry).ok
                           THEN Label("PASS - Password matches this SCrypt hash", <<>>)
                           ELSE Label("FAIL - Password does NOT match this SCrypt hash", <<>>)
              /\ argon_
                   => /\ engineCalls' = <<>>
                      /\ resultLabel' =
                           Label("Argon2 verification not yet supported in verify tab", <<>>)
              /\ (~scrypt_ /\ ~argon_)
                   => /\ engineCalls' = <<>>
                      /\ resultLabel' =
                           Label("Hash is %d chars (MD5=32, SHA1=40, SHA512=128) - use Generate tab to compare",
                                 <<Len(h)>>)
      ]_vars

\* C7: encode64Bytes loses no information: two different byte sequences never
\* encode to the same string (so that an inverse, decode, exists).
C7_EncodeInjective ==
    (pc = "encoded" /\ srcA # srcB) => encA # encB

C7_Witness ==
    /\ pc = "encoded"
    /\ Len(srcA) = 3 /\ Len(srcB) = 3
    /\ SubSeq(srcA, 1, 2) = SubSeq(srcB, 1, 2)
    /\ srcA[3] = 0 /\ srcB[3] = 64
    /\ encA # encB

\* C8: a hash produced by eqcryptHash(u, p, 14) in which one character after
\* the final '$' has been replaced by a different one does not verify against p.
C8_TamperDetected ==
    (pc = "verifiedTampered" /\ verifyPassword = password) => ~verified.ok

C8_Witness ==
    /\ pc = "verifiedTampered" /\ verifyPassword = password
    /\ storedHash[Len(storedHash)] = 36
    /\ verified.kdfRan
    /\ ~verified.ok

\* C9: a string returned by hashSCrypt has length 101, begins with
\* "$7$C6..../....", has '$' exactly at indices 0, 2 and 57, and every other
\* character from index 3 on is one of ./0-9A-Za-z.
C9_ScryptLayout ==
    (Hashed /\ mode = 14 /\ err = "nil")
    => /\ Len(hash) = 101
       /\ Slice(hash, 0, 14) = <<36, 55, 36, 67, 54, 46, 46, 46, 46, 47, 46, 46, 46, 46>>
       /\ {i \in 0..(Len(hash) - 1) : hash[i + 1] = 36} = {0, 2, 57}
       /\ \A i \in 3..(Len(hash) - 1) :
             i # 57 => hash[i + 1] \in ({46, 47} \cup 48..57 \cup 65..90 \cup 97..122)

C9_Witness ==
    /\ pc = "hashed" /\ mode = 14 /\ err = "nil"
    /\ Len(hash) = 101
    /\ rnd.stream \notin {[i \in 1..32 |-> 0], [i \in 1..32 |-> 255]}

\* C10: for modes 1..12 eqcryptHash returns H(password), H(password:username),
\* H(username:password) or H(hex(H(username)) ++ hex(H(password))) for the
\* first to fourth mode of each family, with H = MD5, SHA1, SHA512 for modes
\* 1-4, 5-8, 9-12, as lowercase hex of 32, 40 or 128 characters; modes 1, 5
\* and 9 return the same string for every username.
C10_LegacyTable ==
    (Hashed /\ mode \in 1..12)
    => LET family == (mode - 1) \div 4
           shape == (mode - 1) % 4
           Sum(x) == IF family = 0 THEN md5Sum(x)
                     ELSE IF family = 1 THEN sha1Sum(x) ELSE sha512Sum(x)
           H(x) == FormatHex(Sum(x))
           expected == IF shape = 0 THEN H(password)
                       ELSE IF shape = 1 THEN H(password \o <<58>> \o username)
                       ELSE IF shape = 2 THEN H(username \o <<58>> \o password)
                       ELSE H(H(username) \o H(password))
       IN /\ err = "nil"
          /\ hash = expected
          /\ Len(hash) = IF family = 0 THEN 32 ELSE IF family = 1 THEN 40 ELSE 128
          /\ \A i \in 1..Len(hash) : hash[i] \in (48..57 \cup 97..102)
          /\ shape = 0 => \A u \in Usernames : eqcryptHash(u, password, mode, rnd).hash = hash

C10_Witness ==
    /\ pc = "hashed" /\ mode = 6
    /\ username # <<>> /\ password # <<>>
    /\ hash # hashSHA1(username \o <<58>> \o password)

====
